---- MODULE Spec2Model ----
(***************************************************************************)
(* Model of the Sirportly V2 API client (src/index.js): the SirportlyAPI   *)
(* constructor, getConfig, the request dispatcher with its transport       *)
(* completion handler, and convenience operations built on request().      *)
(***************************************************************************)
EXTENDS Integers, Sequences, FiniteSets, TLC

VARIABLES
    constructed,  \* "no" | "threw" | "ok": outcome of `new SirportlyAPI(config)`
    cfgArg,       \* the config argument the caller passed to the constructor
    heap,         \* the object bound to `this` inside the constructor
    client,       \* the object the caller received from `new` (NoClient if none)
    calls         \* one entry per invocation of request(), in invocation order

vars == <<constructed, cfgArg, heap, client, calls>>

\* Number of request() invocations explored.
MaxCalls == 2

(***************************************************************************)
(* JavaScript values                                                       *)
(***************************************************************************)
Undefined == [type |-> "undefined"]
Null      == [type |-> "null"]
Str(s)    == [type |-> "string", str |-> s]
Num(n)    == [type |-> "number", num |-> n]
Fn(name)  == [type |-> "function", name |-> name]
Arr(seq)  == [type |-> "array", items |-> seq]
Obj(f)    == [type |-> "object", props |-> f]
ErrorObj(msg) == [type |-> "error", message |-> msg]

EmptyObj == Obj(<<>>)

\* ToBoolean: the truthiness test behind `!x`, `x || y` and `if(x)`.
Truthy(v) ==
    CASE v.type = "undefined" -> FALSE
      [] v.type = "null"      -> FALSE
      [] v.type = "string"    -> v.str # ""
      [] v.type = "number"    -> v.num # 0
      [] OTHER                -> TRUE

\* typeof v
TypeOf(v) ==
    CASE v.type = "undefined" -> "undefined"
      [] v.type = "string"    -> "string"
      [] v.type = "number"    -> "number"
      [] v.type = "function"  -> "function"
      [] OTHER                -> "object"

RECURSIVE JoinItems(_)
\* ToString: the conversion applied by string concatenation and `new Error(v)`.
ToStr(v) ==
    CASE v.type = "undefined" -> "undefined"
      [] v.type = "null"      -> "null"
      [] v.type = "string"    -> v.str
      [] v.type = "number"    -> ToString(v.num)
      [] v.type = "array"     -> JoinItems(v.items)
      [] v.type = "function"  -> "function " \o v.name \o "() {}"
      [] v.type = "error"     -> "Error: " \o v.message
      [] OTHER                -> "[object Object]"

JoinItems(items) ==
    IF items = <<>> THEN ""
    ELSE IF Len(items) = 1 THEN ToStr(items[1])
    ELSE ToStr(items[1]) \o "," \o JoinItems(Tail(items))

\* obj[key] on an object value
Get(obj, key) ==
    IF obj.type = "object" /\ key \in DOMAIN obj.props THEN obj.props[key] ELSE Undefined

\* `new Error(a, b, ...)`: the message is the first argument converted to a
\* string; further arguments do not contribute to it.
NewError(args) ==
    ErrorObj(IF args = <<>> \/ args[1].type = "undefined" THEN "" ELSE ToStr(args[1]))

\* merge(a, b) of the `merge` package: copies the own keys of each object
\* argument onto the first, key by key; arguments that are not objects are
\* skipped.
Merge(a, b) ==
    IF b.type # "object" THEN a
    ELSE Obj([k \in (DOMAIN a.props) \cup (DOMAIN b.props) |->
                 IF k \in DOMAIN b.props THEN b.props[k] ELSE a.props[k]])

(***************************************************************************)
(* Client construction                                                     *)
(***************************************************************************)
DefaultProtocol == "http"
DefaultPort     == 80

\* DefaultConfig with another port default.
DefaultConfig_Port8080 ==
    Obj([token |-> Null, secret |-> Null, server |-> Null,
         protocol |-> Str(DefaultProtocol), port |-> Num(8080)])

DefaultConfig ==
    Obj([token |-> Null, secret |-> Null, server |-> Null,
         protocol |-> Str(DefaultProtocol), port |-> Num(DefaultPort)])

\* ConfigInvalid without the server test.
ConfigInvalid_NoServer(config) ==
    \/ ~Truthy(Get(config, "token"))
    \/ ~Truthy(Get(config, "secret"))

\* The validation of the required parameters.
ConfigInvalid(config) ==
    \/ ~Truthy(Get(config, "token"))
    \/ ~Truthy(Get(config, "secret"))
    \/ ~Truthy(Get(config, "server"))

NoClient == [type |-> "none"]

\* Caller-side configurations: each key is either omitted or given a value.
Absent == [type |-> "absent"]
Strip(f) == Obj([k \in {j \in DOMAIN f : f[j] # Absent} |-> f[k]])

ConfigArgs ==
    {Undefined} \cup
    { Strip([token |-> t, secret |-> s, server |-> h, protocol |-> pn[1], port |-> pn[2]]) :
        t \in {Absent, Str(""), Str("tok")},
        s \in {Absent, Null, Str("sec")},
        h \in {Absent, Str("desk.example")},
        pn \in {<<Absent, Num(443)>>, <<Str("https"), Absent>>} }

\* function SirportlyAPI(config)
Construct(config) ==
    /\ constructed = "no"
    /\ LET this == [type |-> "client",
                    _config |-> Merge(DefaultConfig, IF Truthy(config) THEN config ELSE EmptyObj)]
       IN  /\ heap' = this
           /\ cfgArg' = config
           /\ IF ConfigInvalid(this._config)
              THEN constructed' = "threw" /\ client' = NoClient
              ELSE constructed' = "ok" /\ client' = this
    /\ UNCHANGED calls

\* SirportlyAPI.prototype.getConfig
GetConfig == client._config

(***************************************************************************)
(* Request dispatcher                                                      *)
(***************************************************************************)
\* CallbackInvalid without the typeof test.
CallbackInvalid_FalsyOnly(callback) ==
    ~Truthy(callback)

\* The callback guard at the top of request().
CallbackInvalid(callback) ==
    ~Truthy(callback) \/ TypeOf(callback) # "function"

\* Server endpoint for a request.
Endpoint(config, uri) ==
    ToStr(Get(config, "protocol")) \o "://" \o ToStr(Get(config, "server"))
        \o ":" \o ToStr(Get(config, "port")) \o uri

\* Default request options.
DefaultOptions(config, uri) ==
    Obj([method  |-> Str("GET"),
         url     |-> Str(Endpoint(config, uri)),
         headers |-> Obj([k \in {"X-Auth-Token", "X-Auth-Secret"} |->
                             IF k = "X-Auth-Token" THEN Get(config, "token")
                                                   ELSE Get(config, "secret")])])

\* SirportlyAPI.prototype.request, up to and including the transport call.
\* op and args record which public operation the caller invoked and with what.
Request(op, args, uri, options, callback) ==
    /\ constructed = "ok"
    /\ Len(calls) < MaxCalls
    /\ IF CallbackInvalid(callback)
       THEN calls' = Append(calls,
                [state |-> "threw", op |-> op, args |-> args, callback |-> callback,
                 thrown |-> NewError(<<Str("Callback parameter must be a fuction")>>)])
       ELSE calls' = Append(calls,
                [state |-> "pending", op |-> op, args |-> args, callback |-> callback,
                 uri |-> uri,
                 transport |-> Merge(DefaultOptions(client._config, uri), options)])
    /\ UNCHANGED <<constructed, cfgArg, heap, client>>

(***************************************************************************)
(* Transport completion                                                    *)
(***************************************************************************)
BodyPlain        == "{\"foo\":\"bar\"}"
BodyError        == "{\"error\":\"not found\"}"
BodyErrors       == "{\"errors\":[\"a\",\"b\"]}"
BodyBoth         == "{\"error\":\"not found\",\"errors\":[\"a\"]}"
BodyEmptyError   == "{\"error\":\"\"}"
BodyNullErrors   == "{\"errors\":null}"
BodyNumError     == "{\"error\":5}"
BodyNull         == "null"
BodyNotJson      == "<html>Bad Gateway</html>"

ParseFailure == [type |-> "SyntaxError"]

\* JSON.parse on the response bodies the transport delivers here.
JSONParse(body) ==
    IF body.type # "string" THEN ParseFailure
    ELSE CASE body.str = BodyPlain        -> Obj([foo |-> Str("bar")])
           [] body.str = BodyError        -> Obj([error |-> Str("not found")])
           [] body.str = BodyErrors       -> Obj([errors |-> Arr(<<Str("a"), Str("b")>>)])
           [] body.str = BodyBoth         -> Obj([error |-> Str("not found"),
                                                  errors |-> Arr(<<Str("a")>>)])
           [] body.str = BodyEmptyError   -> Obj([error |-> Str("")])
           [] body.str = BodyNullErrors   -> Obj([errors |-> Null])
           [] body.str = BodyNumError     -> Obj([error |-> Num(5)])
           [] body.str = BodyNull         -> Null
           [] OTHER                       -> ParseFailure

\* StatusFailed with the upper limit off by one.
StatusFailed_OffByOne(statusCode) == statusCode >= 299 \/ statusCode < 200

\* The response-code check.
StatusFailed(statusCode) == statusCode > 299 \/ statusCode < 200

\* Reading a property of null or undefined raises a TypeError.
Faults(v) == v.type \in {"null", "undefined"}

Outcome(invocations, decoded, classified, fault) ==
    [invocations |-> invocations, decoded |-> decoded,
     classified |-> classified, fault |-> fault]

\* The function handed to the transport finds no error shape in the body.
NoErrorShape == <<>>

\* FailureArgs testing the plural field before the singular one.
FailureArgs_ErrorsFirst(body_json, response, body) ==
    IF Truthy(Get(body_json, "errors"))
    THEN <<NewError(<<body, Get(response, "statusCode"), body>>)>>
    ELSE IF Truthy(Get(body_json, "error"))
    THEN <<NewError(<<Get(body_json, "error")>>)>>
    ELSE NoErrorShape

\* Inside the response-code check: the arguments of the callback for a single
\* error response or a multiple error response, or NoErrorShape.
FailureArgs(body_json, response, body) ==
    IF Truthy(Get(body_json, "error"))
    THEN <<NewError(<<Get(body_json, "error")>>)>>
    ELSE IF Truthy(Get(body_json, "errors"))
    THEN <<NewError(<<body, Get(response, "statusCode"), body>>)>>
    ELSE NoErrorShape

\* The function handed to the transport, past its error check: the debug
\* notice, the decoding, the response-code check and the successful call.
\* invocations lists the argument tuples the callback was called with.
OnSuccess(response, body) ==
    IF Faults(response) THEN Outcome(<<>>, FALSE, FALSE, "TypeError")
    ELSE LET body_json == JSONParse(body) IN
         IF body_json = ParseFailure THEN Outcome(<<>>, TRUE, FALSE, "SyntaxError")
         ELSE IF StatusFailed(Get(response, "statusCode").num)
              THEN IF Faults(body_json) THEN Outcome(<<>>, TRUE, TRUE, "TypeError")
                   ELSE IF FailureArgs(body_json, response, body) # NoErrorShape
                        THEN Outcome(<<FailureArgs(body_json, response, body)>>,
                                     TRUE, TRUE, "none")
                        ELSE Outcome(<< <<Null, body_json>> >>, TRUE, TRUE, "none")
              ELSE Outcome(<< <<Null, body_json>> >>, TRUE, TRUE, "none")

\* OnResponse calling back with the error and carrying on.
OnResponse_NoReturn(error, response, body) ==
    LET rest == OnSuccess(response, body) IN
    IF Truthy(error)
    THEN Outcome(<< <<error>> >> \o rest.invocations, rest.decoded, rest.classified, rest.fault)
    ELSE rest

\* The function handed to the transport: what it does with (error, response,
\* body).
OnResponse(error, response, body) ==
    IF Truthy(error) THEN Outcome(<< <<error>> >>, FALSE, FALSE, "none")
    ELSE OnSuccess(response, body)

StatusCodes == {199, 200, 299, 300}

Bodies == {BodyPlain, BodyError, BodyErrors, BodyBoth, BodyEmptyError,
           BodyNullErrors, BodyNumError, BodyNull, BodyNotJson}

TransportError == ErrorObj("ECONNRESET")

\* What the transport may hand to the completion function.
Responses ==
    { [error |-> Null, response |-> Obj([statusCode |-> Num(st)]), body |-> Str(b)] :
        st \in StatusCodes, b \in Bodies }
    \cup
    { [error |-> TransportError, response |-> Undefined, body |-> Undefined],
      [error |-> TransportError, response |-> Obj([statusCode |-> Num(200)]), body |-> Str(BodyNotJson)],
      [error |-> TransportError, response |-> Obj([statusCode |-> Num(300)]), body |-> Str(BodyError)] }

\* The transport completes the i-th request and runs its completion function.
Complete(i, r) ==
    /\ i \in 1..Len(calls)
    /\ calls[i].state = "pending"
    /\ LET o == OnResponse(r.error, r.response, r.body) IN
       calls' = [calls EXCEPT ![i] =
                    [state |-> "done", callback |-> calls[i].callback, received |-> r,
                     invocations |-> o.invocations, decoded |-> o.decoded,
                     classified |-> o.classified, fault |-> o.fault]]
    /\ UNCHANGED <<constructed, cfgArg, heap, client>>

(***************************************************************************)
(* Public operations                                                       *)
(***************************************************************************)
PagePrefix == "/api/v2"

Callbacks == {Fn("cb"), Undefined, Str("cb")}

OptionArgs ==
    {Undefined,
     Obj([method |-> Str("POST")]),
     Obj([headers |-> Obj([Accept |-> Str("application/json")])])}

\* api.request(uri, options, callback) called directly
RequestCall(uri, options, callback) ==
    Request("request", <<Str(uri), options, callback>>, uri, options, callback)

\* SirportlyAPI.prototype.ticket
Ticket(ticket_reference, callback) ==
    Request("ticket", <<ticket_reference, callback>>, PagePrefix \o "/tickets/ticket",
            Obj([qs |-> Obj([reference |-> ticket_reference])]), callback)

\* SirportlyAPI.prototype.tickets
Tickets(page, callback) ==
    LET isFn      == TypeOf(page) = "function"
        page1     == IF isFn THEN Num(1) ELSE page
        callback1 == IF isFn THEN page1 ELSE callback
    IN  Request("tickets", <<page, callback>>, PagePrefix \o "/tickets/all",
                Obj([qs |-> Obj([page |-> IF Truthy(page1) THEN page1 ELSE Num(1)])]),
                callback1)

\* SirportlyAPI.prototype.statuses
Statuses(callback) ==
    Request("statuses", <<callback>>, PagePrefix \o "/objects/statuses", EmptyObj, callback)

Init ==
    /\ constructed = "no"
    /\ cfgArg = Undefined
    /\ heap = NoClient
    /\ client = NoClient
    /\ calls = <<>>

Next ==
    \/ \E config \in ConfigArgs : Construct(config)
    \/ \E options \in OptionArgs, callback \in Callbacks :
          RequestCall("/api/v2/objects/teams", options, callback)
    \/ Ticket(Str("TKT-1"), Fn("cb"))
    \/ \E page \in {Fn("cb"), Undefined, Num(2)}, callback \in {Fn("cb"), Undefined} :
          Tickets(page, callback)
    \/ \E callback \in {Fn("cb"), Undefined} : Statuses(callback)
    \/ \E i \in 1..MaxCalls, r \in Responses : Complete(i, r)

Spec == Init /\ [][Next]_vars
(***************************************************************************)
(* Properties                                                              *)
(***************************************************************************)
Done(i)    == calls[i].state = "done"
Pending(i) == calls[i].state = "pending"
Threw(i)   == calls[i].state = "threw"

\* A completed call whose transport reported no failure and whose body decodes.
Decodable(i) ==
    /\ Done(i)
    /\ ~Truthy(calls[i].received.error)
    /\ JSONParse(calls[i].received.body) # ParseFailure

DecodedBody(i) == JSONParse(calls[i].received.body)
StatusOf(i)    == calls[i].received.response.props.statusCode.num
InRange(i)     == StatusOf(i) \in 200..299

HasField(v, k)       == v.type = "object" /\ k \in DOMAIN v.props
HasTruthyField(v, k) == HasField(v, k) /\ Truthy(v.props[k])

\* The callback of call i was invoked exactly once, with (null, decodedBody).
GotResult(i) == calls[i].invocations = << <<Null, DecodedBody(i)>> >>

\* The callback of call i was invoked exactly once, with one argument, an error.
GotErrorOnly(i) ==
    /\ Len(calls[i].invocations) = 1
    /\ Len(calls[i].invocations[1]) = 1
    /\ calls[i].invocations[1][1].type = "error"

Fragments == {"", " ", ": ", " (", ")"} \cup Bodies \cup {ToString(st) : st \in StatusCodes}
\* msg is part, possibly with text of Fragments around it.
Embeds(msg, part) == \E pre \in Fragments, post \in Fragments : msg = pre \o part \o post

\* C1: every request whose transport has completed had its callback invoked
\* exactly once, whichever path the completion took.
C1_CallbackExactlyOnce ==
    \A i \in 1..Len(calls) : Done(i) => Len(calls[i].invocations) = 1

\* C2: every outbound transport call carries X-Auth-Token and X-Auth-Secret
\* equal to the configured token and secret, whatever options the caller gave.
C2_AuthHeadersAlways ==
    \A i \in 1..Len(calls) : Pending(i) =>
        LET headers == Get(calls[i].transport, "headers") IN
        /\ Get(headers, "X-Auth-Token") = Get(GetConfig, "token")
        /\ Get(headers, "X-Auth-Secret") = Get(GetConfig, "secret")

\* C3: tickets(cb) with a function cb issues one request to /api/v2/tickets/all
\* with query page = 1 and cb as the completion callback.
C3_TicketsCallbackFirst ==
    \A i \in 1..Len(calls) :
        (~Done(i) /\ calls[i].op = "tickets" /\ TypeOf(calls[i].args[1]) = "function") =>
            /\ Pending(i)
            /\ calls[i].uri = "/api/v2/tickets/all"
            /\ Get(Get(calls[i].transport, "qs"), "page") = Num(1)
            /\ calls[i].callback = calls[i].args[1]

RequiredKeys == {"token", "secret", "server"}

MissingRequired(cfg) ==
    \/ cfg.type # "object"
    \/ \E k \in RequiredKeys : k \notin DOMAIN cfg.props \/ ~Truthy(cfg.props[k])

\* C4: a configuration in which token, secret or server is missing or falsy
\* makes the constructor throw: the caller holds no client, and no request and
\* no transport call ever exists.
C4_InvalidConfigThrows ==
    (constructed # "no" /\ MissingRequired(cfgArg)) =>
        /\ constructed = "threw"
        /\ client = NoClient
        /\ calls = <<>>

\* The constructor threw for a configuration lacking only the server, after
\* the merged configuration had been stored on the object under construction.
C4_Witness ==
    /\ constructed = "threw"
    /\ cfgArg.type = "object"
    /\ DOMAIN cfgArg.props = {"token", "secret", "port"}
    /\ heap.type = "client"
    /\ Get(heap._config, "token") = Str("tok")
    /\ client = NoClient

\* C5: a request() call whose callback argument is missing or not a function
\* threw, and never has a transport call.
C5_BadCallbackThrows ==
    \A i \in 1..Len(calls) :
        (calls[i].callback.type # "function") => Threw(i)

\* request() threw both for a missing callback and for a string callback.
C5_Witness ==
    /\ \E i \in 1..Len(calls) :
          Threw(i) /\ calls[i].op = "request" /\ calls[i].callback = Str("cb")
    /\ \E i \in 1..Len(calls) :
          Threw(i) /\ calls[i].op = "request" /\ calls[i].callback = Undefined

\* C6: a status outside [200,299] with a plural errors field and no singular
\* error field yields an error whose message embeds the raw body and the
\* status code.
C6_MultiErrorStatusAware ==
    \A i \in 1..Len(calls) :
        (/\ Decodable(i)
         /\ ~InRange(i)
         /\ HasField(DecodedBody(i), "errors")
         /\ ~HasField(DecodedBody(i), "error")) =>
            /\ GotErrorOnly(i)
            /\ Embeds(calls[i].invocations[1][1].message, calls[i].received.body.str)
            /\ Embeds(calls[i].invocations[1][1].message, ToString(StatusOf(i)))

\* C7 as stated: a status outside [200,299] with a singular error field,
\* whatever its value, yields an error with that field's value as message and
\* no result argument.
C7_SingleErrorAnyValue ==
    \A i \in 1..Len(calls) :
        (Decodable(i) /\ ~InRange(i) /\ HasField(DecodedBody(i), "error")) =>
            /\ GotErrorOnly(i)
            /\ calls[i].invocations[1][1].message = ToStr(DecodedBody(i).props.error)

\* C7: a status outside [200,299] with a singular error field whose value is
\* truthy yields an error with that value, as a string, as message and no
\* result argument, whether or not an errors field is present too.
C7_SingleErrorTruthy ==
    \A i \in 1..Len(calls) :
        (Decodable(i) /\ ~InRange(i) /\ HasTruthyField(DecodedBody(i), "error")) =>
            /\ GotErrorOnly(i)
            /\ calls[i].invocations[1][1].message = ToStr(DecodedBody(i).props.error)

\* A 300 response carrying both error and errors was reported as "not found".
C7_Witness ==
    \E i \in 1..Len(calls) :
        /\ Decodable(i)
        /\ StatusOf(i) = 300
        /\ calls[i].received.body = Str(BodyBoth)
        /\ calls[i].invocations = << <<ErrorObj("not found")>> >>

C9_TransportFailureVerbatim ==
    \A i \in 1..Len(calls) :
        (Done(i) /\ Truthy(calls[i].received.error)) =>
            /\ calls[i].invocations = << <<calls[i].received.error>> >>
            /\ ~calls[i].decoded
            /\ ~calls[i].classified
            /\ calls[i].fault = "none"

\* A failure that came with a 300 status and an error body was passed on.
C9_Witness ==
    \E i \in 1..Len(calls) :
        /\ Done(i)
        /\ calls[i].received.error = TransportError
        /\ calls[i].received.body = Str(BodyError)
        /\ calls[i].invocations = << <<TransportError>> >>

RequiredNonEmpty(cfg) ==
    /\ cfg.type = "object"
    /\ \A k \in RequiredKeys :
          k \in DOMAIN cfg.props /\ cfg.props[k].type = "string" /\ cfg.props[k].str # ""

\* C10: with non-empty token, secret and server, construction succeeds and
\* getConfig() returns the caller's value for every key supplied, "http" and
\* 80 for protocol and port when omitted, in every state reached afterwards.
C10_ConfigEffectiveAndStable ==
    (constructed # "no" /\ RequiredNonEmpty(cfgArg)) =>
        /\ constructed = "ok"
        /\ GetConfig.type = "object"
        /\ DOMAIN GetConfig.props = DOMAIN cfgArg.props \cup {"protocol", "port"}
        /\ \A k \in DOMAIN cfgArg.props : GetConfig.props[k] = cfgArg.props[k]
        /\ "protocol" \notin DOMAIN cfgArg.props => GetConfig.props["protocol"] = Str("http")
        /\ "port" \notin DOMAIN cfgArg.props => GetConfig.props["port"] = Num(80)

\* A client built without a port, after one request completed and another
\* was issued.
C10_Witness ==
    /\ constructed = "ok"
    /\ "port" \notin DOMAIN cfgArg.props
    /\ Get(GetConfig, "protocol") = Str("https")
    /\ \E i \in 1..Len(calls) : Done(i)
    /\ \E i \in 1..Len(calls) : Pending(i) /\ calls[i].op = "tickets"
====
